---------------------------- MODULE Spec2Model ----------------------------
(***************************************************************************)
(* Model of the AI-Text-Summarizer web front-end (src/app.py) and of the   *)
(* agent it drives (src/enhanced_agent.py): request validation, dispatch   *)
(* to the summarization client / sentiment scorer / keyword extractor,     *)
(* the batch loop, and the keyword extraction algorithm at the level of    *)
(* characters.                                                             *)
(*                                                                         *)
(* Python strings are sequences of one-character strings.  A JSON value    *)
(* is a record [t, s, n]: t is the JSON/Python type, s the characters of   *)
(* a string, n the number of an int or bool (a float holds its value in    *)
(* tenths, so 50.7 is n = 507).                                            *)
(***************************************************************************)
EXTENDS Integers, Sequences, FiniteSets, TLC

VARIABLES
    agent_initialized,  \* app.py:18/22, set once when the module is loaded
    pc,                 \* position of the single request thread
    endpoint,           \* the handler serving the current request
    data,               \* request.get_json() of the current request
    response,           \* the (body, status) pair the handler returned
    calls,              \* agent components invoked for the current request
    results,            \* batch_summarize's results list, in loop order
    kw_text,            \* direct call extract_keywords(text, ...): text
    kw_max,             \*   its max_keywords argument
    kw_result           \*   the list it returned

vars == << agent_initialized, pc, endpoint, data, response, calls, results,
           kw_text, kw_max, kw_result >>

Min(a, b) == IF a <= b THEN a ELSE b
Max(a, b) == IF a >= b THEN a ELSE b

---------------------------------------------------------------------------
(* Characters and the str methods the code uses.                           *)

ascii_lowercase ==
    { "a", "b", "c", "d", "e", "f", "g", "h", "i", "j", "k", "l", "m", "n", "o", "p",
      "q", "r", "s", "t", "u", "v", "w", "x", "y", "z" }

ascii_uppercase ==
    { "A", "B", "C", "D", "E", "F", "G", "H", "I", "J", "K", "L", "M", "N", "O", "P",
      "Q", "R", "S", "T", "U", "V", "W", "X", "Y", "Z" }

digits ==
    { "0", "1", "2", "3", "4", "5", "6", "7", "8", "9" }

\* str.isspace / the regex class \s
whitespace == { " ", "\t", "\n" }

to_lower ==
    ("A" :> "a") @@ ("B" :> "b") @@ ("C" :> "c") @@ ("D" :> "d") @@ ("E" :> "e") @@
    ("F" :> "f") @@ ("G" :> "g") @@ ("H" :> "h") @@ ("I" :> "i") @@ ("J" :> "j") @@
    ("K" :> "k") @@ ("L" :> "l") @@ ("M" :> "m") @@ ("N" :> "n") @@ ("O" :> "o") @@
    ("P" :> "p") @@ ("Q" :> "q") @@ ("R" :> "r") @@ ("S" :> "s") @@ ("T" :> "t") @@
    ("U" :> "u") @@ ("V" :> "v") @@ ("W" :> "w") @@ ("X" :> "x") @@ ("Y" :> "y") @@
    ("Z" :> "z")

IsSpace(c) == c \in whitespace

\* the regex class \w: letters, digits and the underscore
IsWordChar(c) == c \in (ascii_lowercase \cup ascii_uppercase \cup digits \cup {"_"})

lower_char(c) == IF c \in ascii_uppercase THEN to_lower[c] ELSE c

\* str.lower()
str_lower(s) == [i \in 1..Len(s) |-> lower_char(s[i])]

RECURSIVE str_lstrip(_)
str_lstrip(s) ==
    IF s # <<>> /\ IsSpace(Head(s)) THEN str_lstrip(Tail(s)) ELSE s

RECURSIVE str_rstrip(_)
str_rstrip(s) ==
    IF s # <<>> /\ IsSpace(s[Len(s)]) THEN str_rstrip(SubSeq(s, 1, Len(s) - 1)) ELSE s

\* str.strip()
str_strip(s) == str_rstrip(str_lstrip(s))

RECURSIVE split_scan(_, _, _, _)
split_scan(s, i, cur, out) ==
    IF i > Len(s)
    THEN IF cur = <<>> THEN out ELSE Append(out, cur)
    ELSE IF IsSpace(s[i])
         THEN split_scan(s, i + 1, <<>>, IF cur = <<>> THEN out ELSE Append(out, cur))
         ELSE split_scan(s, i + 1, Append(cur, s[i]), out)

\* str.split() with no separator: the maximal runs of non-whitespace
str_split(s) == split_scan(s, 1, <<>>, <<>>)

KeepChar(c) == IsWordChar(c) \/ IsSpace(c)

\* re.sub(r'[^\w\s]', '', s)
re_sub_nonword(s) == SelectSeq(s, KeepChar)

---------------------------------------------------------------------------
(* JSON values.                                                            *)

JStr(s)   == [t |-> "str",   s |-> s,    n |-> 0]
JInt(n)   == [t |-> "int",   s |-> <<>>, n |-> n]
JFloat(n) == [t |-> "float", s |-> <<>>, n |-> n]
JInf      == [t |-> "inf",   s |-> <<>>, n |-> 0]
JTrue     == [t |-> "bool",  s |-> <<>>, n |-> 1]
JFalse    == [t |-> "bool",  s |-> <<>>, n |-> 0]
JNull     == [t |-> "null",  s |-> <<>>, n |-> 0]
\* a non-empty list, such as [1]
JList     == [t |-> "list",  s |-> <<>>, n |-> 0]
\* the key is not in the payload
Absent    == [t |-> "absent", s |-> <<>>, n |-> 0]

\* bool(v) of a JSON value: None, False, 0, 0.0, "" and [] are false
Truthy(v) ==
    CASE v.t = "null" -> FALSE
      [] v.t \in {"bool", "int", "float"} -> v.n # 0
      [] v.t = "str" -> v.s # <<>>
      [] OTHER -> TRUE

---------------------------------------------------------------------------
(* EnhancedTextSummarizerAgent.extract_keywords                            *)

stop_words ==
    { <<"t", "h", "e">>, <<"a">>, <<"a", "n">>, <<"a", "n", "d">>, <<"o", "r">>,
      <<"b", "u", "t">>, <<"i", "n">>, <<"o", "n">>, <<"a", "t">>, <<"t", "o">>,
      <<"f", "o", "r">>, <<"o", "f">>, <<"w", "i", "t", "h">>, <<"b", "y">>,
      <<"i", "s">>, <<"a", "r", "e">>, <<"w", "a", "s">>, <<"w", "e", "r", "e">>,
      <<"b", "e">>, <<"b", "e", "e", "n">>, <<"b", "e", "i", "n", "g">>,
      <<"h", "a", "v", "e">>, <<"h", "a", "s">>, <<"h", "a", "d">>, <<"d", "o">>,
      <<"d", "o", "e", "s">>, <<"d", "i", "d">>, <<"w", "i", "l", "l">>,
      <<"w", "o", "u", "l", "d">>, <<"c", "o", "u", "l", "d">>,
      <<"s", "h", "o", "u", "l", "d">>, <<"m", "a", "y">>, <<"m", "i", "g", "h", "t">>,
      <<"m", "u", "s", "t">>, <<"c", "a", "n">>, <<"t", "h", "i", "s">>,
      <<"t", "h", "a", "t">>, <<"t", "h", "e", "s", "e">>, <<"t", "h", "o", "s", "e">>,
      <<"i">>, <<"y", "o", "u">>, <<"h", "e">>, <<"s", "h", "e">>, <<"i", "t">>,
      <<"w", "e">>, <<"t", "h", "e", "y">>, <<"m", "e">>, <<"h", "i", "m">>,
      <<"h", "e", "r">>, <<"u", "s">>, <<"t", "h", "e", "m">>, <<"m", "y">>,
      <<"y", "o", "u", "r">>, <<"h", "i", "s">>, <<"i", "t", "s">>, <<"o", "u", "r">>,
      <<"t", "h", "e", "i", "r">>, <<"f", "r", "o", "m">>, <<"u", "p">>,
      <<"a", "b", "o", "u", "t">>, <<"i", "n", "t", "o">>,
      <<"t", "h", "r", "o", "u", "g", "h">>, <<"d", "u", "r", "i", "n", "g">>,
      <<"b", "e", "f", "o", "r", "e">>, <<"a", "f", "t", "e", "r">>,
      <<"a", "b", "o", "v", "e">>, <<"b", "e", "l", "o", "w">>,
      <<"b", "e", "t", "w", "e", "e", "n">>, <<"a", "m", "o", "n", "g">> }

DefaultMaxKeywords == 10

\* len(word) > 3
MinWordLen == 3

\* the filter with the length test off by one (len(word) >= 3)
KeepWordShort(word) == word \notin stop_words /\ Len(word) > MinWordLen - 1

\* word not in stop_words and len(word) > 3
KeepWord(word) == word \notin stop_words /\ Len(word) > MinWordLen

\* the list comprehension that filters the words
filter_words(words) == SelectSeq(words, KeepWord)

\* word_freq[word] = word_freq.get(word, 0) + 1 on an insertion-ordered dict,
\* held as the sequence of its items
dict_incr(d, word) ==
    IF \E i \in 1..Len(d) : d[i].word = word
    THEN [i \in 1..Len(d) |->
            IF d[i].word = word THEN [d[i] EXCEPT !.freq = @ + 1] ELSE d[i]]
    ELSE Append(d, [word |-> word, freq |-> 1])

RECURSIVE count_freq(_, _)
count_freq(words, d) ==
    IF words = <<>> THEN d ELSE count_freq(Tail(words), dict_incr(d, Head(words)))

\* insertion with ties placed before their equals: what sorting ascending
\* and reversing the list would give
insert_desc_unstable(sorted, x) ==
    LET k == Cardinality({i \in 1..Len(sorted) : sorted[i].freq > x.freq})
    IN  SubSeq(sorted, 1, k) \o <<x>> \o SubSeq(sorted, k + 1, Len(sorted))

\* stable insertion for a descending sort: x goes after every item whose
\* frequency is at least its own
insert_desc(sorted, x) ==
    LET k == Cardinality({i \in 1..Len(sorted) : sorted[i].freq >= x.freq})
    IN  SubSeq(sorted, 1, k) \o <<x>> \o SubSeq(sorted, k + 1, Len(sorted))

RECURSIVE sort_items(_, _)
sort_items(items, acc) ==
    IF items = <<>> THEN acc ELSE sort_items(Tail(items), insert_desc(acc, Head(items)))

\* sorted(word_freq.items(), key=lambda x: x[1], reverse=True): Python's sort
\* is stable, also under reverse=True
sorted_by_freq(items) == sort_items(items, <<>>)

\* lst[:n] for an int n (a negative n counts from the end)
slice_to(lst, n) ==
    IF n >= 0 THEN SubSeq(lst, 1, Min(n, Len(lst)))
    ELSE SubSeq(lst, 1, Max(0, Len(lst) + n))

ErrorExtracting == <<"E", "r", "r", "o", "r", " ", "e", "x", "t", "r", "a", "c", "t", "i", "n", "g", " ", "k", "e", "y", "w", "o", "r", "d", "s", ":", " ">>

\* the filtered token sequence of a string (lines 134-148)
filtered_words(s) == filter_words(str_split(re_sub_nonword(str_lower(s))))

\* the ranked (word, freq) items of a string (lines 150-156)
ranked_items(s) == sorted_by_freq(count_freq(filtered_words(s), <<>>))

\* extract_keywords(text, max_keywords) on JSON values.  text.lower() raises
\* AttributeError unless text is a str; keywords[:max_keywords] raises
\* TypeError unless max_keywords is an int, a bool or None.  Either is caught
\* and the one-element list with the error message is returned.
extract_keywords(text, max_keywords) ==
    IF text.t # "str" THEN << ErrorExtracting \o <<"A", "t", "t", "r", "i", "b", "u", "t", "e", "E", "r", "r", "o", "r">> >>
    ELSE LET keywords == ranked_items(text.s)
             words == [i \in 1..Len(keywords) |-> keywords[i].word]
         IN  CASE max_keywords.t \in {"int", "bool"} -> slice_to(words, max_keywords.n)
               [] max_keywords.t = "null" -> words
               [] OTHER -> << ErrorExtracting \o <<"T", "y", "p", "e", "E", "r", "r", "o", "r">> >>

---------------------------------------------------------------------------
(* The builtin int(x), as app.py:73 applies it to max_length.              *)

digit_value ==
    ("0" :> 0) @@ ("1" :> 1) @@ ("2" :> 2) @@ ("3" :> 3) @@ ("4" :> 4) @@
    ("5" :> 5) @@ ("6" :> 6) @@ ("7" :> 7) @@ ("8" :> 8) @@ ("9" :> 9)

RECURSIVE digits_to_int(_, _)
digits_to_int(s, acc) ==
    IF s = <<>> THEN acc ELSE digits_to_int(Tail(s), 10 * acc + digit_value[Head(s)])

IntOk(n)    == [ok |-> TRUE,  n |-> n, exc |-> "none"]
IntExc(exc) == [ok |-> FALSE, n |-> 0, exc |-> exc]

\* int(str): surrounding whitespace is stripped, one sign is allowed, the rest
\* must be decimal digits
int_of_str(s) ==
    LET body == str_strip(s)
        signed == body # <<>> /\ Head(body) \in {"+", "-"}
        ds == IF signed THEN Tail(body) ELSE body
    IN  IF ds # <<>> /\ \A i \in 1..Len(ds) : ds[i] \in digits
        THEN IntOk(IF signed /\ Head(body) = "-"
                   THEN 0 - digits_to_int(ds, 0) ELSE digits_to_int(ds, 0))
        ELSE IntExc("ValueError")

\* int(float) truncates toward zero; v holds tenths
int_of_float(v) == IF v >= 0 THEN v \div 10 ELSE 0 - ((0 - v) \div 10)

py_int(v) ==
    CASE v.t \in {"int", "bool"} -> IntOk(v.n)
      [] v.t = "float" -> IntOk(int_of_float(v.n))
      [] v.t = "inf" -> IntExc("OverflowError")
      [] v.t = "str" -> int_of_str(v.s)
      [] OTHER -> IntExc("TypeError")

---------------------------------------------------------------------------
(* Outcomes of the external collaborators.                                 *)

\* longest summary the provider returns here, in words
MaxSummaryWords == 2

\* a summary of w one-letter words separated by single spaces
SummaryText(w) == [i \in 1..(2 * w - 1) |-> IF i % 2 = 0 THEN " " ELSE "s"]

\* longer summaries, whose ratios to the texts are rounded up or fall on a tie
RatioSummaryWords == { 6, 8 }

\* The chat-completion call either raises or returns a message whose
\* content is a summary (possibly empty or whitespace-only) or None.
ProviderRaises == [raised |-> TRUE, content |-> "none", summary |-> <<>>]
ProviderReturns(w) == [raised |-> FALSE, content |-> "str", summary |-> SummaryText(w)]
ProviderReturnsBlank == [raised |-> FALSE, content |-> "str", summary |-> << " ", "\n" >>]
ProviderReturnsNone == [raised |-> FALSE, content |-> "null", summary |-> <<>>]
ProviderOutcomes ==
    { ProviderRaises, ProviderReturnsBlank, ProviderReturnsNone }
    \cup { ProviderReturns(w) : w \in (0..MaxSummaryWords) \cup RatioSummaryWords }

\* polarity and subjectivity of TextBlob's lexical model, in hundredths
Polarities == -100..100
Subjectivities == { 0, 50, 80 }
TextBlobRaises == [raised |-> TRUE, polarity |-> 0, subjectivity |-> 0]
TextBlobOutcomes ==
    {TextBlobRaises} \cup
    {[raised |-> FALSE, polarity |-> p, subjectivity |-> s] :
        p \in Polarities, s \in Subjectivities}

\* the outcomes of an uneventful request: a one-word summary, a neutral text
NominalProvider == ProviderReturns(1)
NominalTextBlob == [raised |-> FALSE, polarity |-> 0, subjectivity |-> 0]

---------------------------------------------------------------------------
(* EnhancedTextSummarizerAgent                                             *)

PositiveThreshold == 10
NegativeThreshold == -10

\* _get_sentiment_description(polarity, subjectivity): the two words the
\* sentence "The text is {pol_desc} and {subj_desc}." is made of
get_sentiment_description(polarity, subjectivity) ==
    [pol_desc |-> IF polarity > 50 THEN "very positive"
                  ELSE IF polarity > 10 THEN "positive"
                  ELSE IF polarity < -50 THEN "very negative"
                  ELSE IF polarity < 0 THEN "negative"
                  ELSE "neutral",
     subj_desc |-> IF subjectivity > 70 THEN "highly subjective"
                   ELSE IF subjectivity > 30 THEN "moderately subjective"
                   ELSE "objective"]

NoDescription == [pol_desc |-> "", subj_desc |-> ""]

NoSentiment ==
    [error |-> FALSE, sentiment |-> "none", polarity |-> 0, subjectivity |-> 0,
     confidence |-> 0, description |-> NoDescription]

\* the result of the except clause of analyze_sentiment
SentimentError ==
    [error |-> TRUE, sentiment |-> "unknown", polarity |-> 0, subjectivity |-> 0,
     confidence |-> 0, description |-> NoDescription]

\* analyze_sentiment with the thresholds included in the positive and the
\* negative band (>=, <=)
analyze_sentiment_inclusive(text, tb) ==
    IF text.t # "str" \/ tb.raised
    THEN SentimentError
    ELSE [error |-> FALSE,
          sentiment |-> IF tb.polarity >= PositiveThreshold THEN "positive"
                        ELSE IF tb.polarity <= NegativeThreshold THEN "negative"
                        ELSE "neutral",
          polarity |-> tb.polarity,
          subjectivity |-> tb.subjectivity,
          confidence |-> IF tb.polarity < 0 THEN -tb.polarity ELSE tb.polarity,
          description |-> get_sentiment_description(tb.polarity, tb.subjectivity)]

\* analyze_sentiment letting a value that is not a str through to the scorer
analyze_sentiment_unguarded(text, tb) ==
    IF tb.raised
    THEN SentimentError
    ELSE [error |-> FALSE,
          sentiment |-> IF tb.polarity > PositiveThreshold THEN "positive"
                        ELSE IF tb.polarity < NegativeThreshold THEN "negative"
                        ELSE "neutral",
          polarity |-> tb.polarity,
          subjectivity |-> tb.subjectivity,
          confidence |-> IF tb.polarity < 0 THEN -tb.polarity ELSE tb.polarity,
          description |-> get_sentiment_description(tb.polarity, tb.subjectivity)]

\* analyze_sentiment(text): TextBlob(text) raises TypeError unless text is a
\* str; every exception ends in the error-tagged result
analyze_sentiment(text, tb) ==
    IF text.t # "str" \/ tb.raised
    THEN SentimentError
    ELSE [error |-> FALSE,
          sentiment |-> IF tb.polarity > PositiveThreshold THEN "positive"
                        ELSE IF tb.polarity < NegativeThreshold THEN "negative"
                        ELSE "neutral",
          polarity |-> tb.polarity,
          subjectivity |-> tb.subjectivity,
          confidence |-> IF tb.polarity < 0 THEN -tb.polarity ELSE tb.polarity,
          description |-> get_sentiment_description(tb.polarity, tb.subjectivity)]

\* the tone clause summarize puts in the prompt (lines 223-230)
prompt_tone(style) ==
    CASE style = JStr(<<"b", "u", "l", "l", "e", "t", "_", "p", "o", "i", "n", "t", "s">>) -> "using bullet points"
      [] style = JStr(<<"c", "a", "s", "u", "a", "l">>) -> "in a casual, conversational tone"
      [] style = JStr(<<"t", "e", "c", "h", "n", "i", "c", "a", "l">>) -> "focusing on technical details and terminology"
      [] OTHER -> "in a professional tone"

\* the call summarize makes to client.chat.completions.create, with the
\* outcome it had
ClientCall(text, max_length, style, out) ==
    [op |-> "chat_completion", text |-> text, max_length |-> max_length,
     style |-> style, with_length |-> Truthy(max_length), tone |-> prompt_tone(style),
     nominal |-> (out = NominalProvider),
     raised |-> out.raised, content |-> out.content, summary |-> out.summary,
     polarity |-> 0, subjectivity |-> 0]

SentimentCall(text, tb) ==
    [op |-> "analyze_sentiment", text |-> text, max_length |-> Absent,
     style |-> Absent, with_length |-> FALSE, tone |-> "",
     nominal |-> (tb = NominalTextBlob),
     raised |-> tb.raised, content |-> "none", summary |-> <<>>,
     polarity |-> tb.polarity, subjectivity |-> tb.subjectivity]

KeywordsCall(text, max_keywords) ==
    [op |-> "extract_keywords", text |-> text, max_length |-> max_keywords,
     style |-> Absent, with_length |-> FALSE, tone |-> "", nominal |-> TRUE,
     raised |-> FALSE, content |-> "none", summary |-> <<>>,
     polarity |-> 0, subjectivity |-> 0]

\* agent.get_available_models(): client.models.list() raised or not; the
\* method catches the exception and returns its fixed list
ModelsCall(listed) ==
    [op |-> "get_available_models", text |-> Absent, max_length |-> Absent,
     style |-> Absent, with_length |-> FALSE, tone |-> "", nominal |-> TRUE,
     raised |-> ~listed, content |-> "none", summary |-> <<>>,
     polarity |-> 0, subjectivity |-> 0]

\* agent.get_agent_stats()
StatsCall ==
    [op |-> "get_agent_stats", text |-> Absent, max_length |-> Absent,
     style |-> Absent, with_length |-> FALSE, tone |-> "", nominal |-> TRUE,
     raised |-> FALSE, content |-> "none", summary |-> <<>>,
     polarity |-> 0, subjectivity |-> 0]

\* round(a / b, 2) cutting the quotient off after two decimals
py_round2_truncating(a, b) == (100 * a) \div b

\* round(a / b, 2) in hundredths, for word counts a >= 0 and b > 0.  A tie
\* needs b to be a multiple of 8; for b < 40 the quotient is then a dyadic
\* fraction, exact as a float, and round() takes the even hundredth.
py_round2(a, b) ==
    LET q == (100 * a) \div b
        r == (100 * a) % b
    IN  IF 2 * r < b THEN q
        ELSE IF 2 * r > b THEN q + 1
        ELSE IF q % 2 = 0 THEN q ELSE q + 1

\* {"error": ..., "summary": None}
SummaryError(msg) ==
    [error |-> msg, has_summary |-> FALSE, summary |-> <<>>,
     original_length |-> 0, summary_length |-> 0, compression_ratio |-> 0,
     has_sentiment |-> FALSE, sentiment_analysis |-> NoSentiment,
     has_keywords |-> FALSE, keywords |-> <<>>]

\* the result dict of a summarize call that raised nothing
SummaryResult(text, summary) ==
    [error |-> "", has_summary |-> TRUE, summary |-> summary,
     original_length |-> Len(str_split(text.s)),
     summary_length |-> Len(str_split(summary)),
     compression_ratio |-> py_round2(Len(str_split(text.s)), Len(str_split(summary))),
     has_sentiment |-> FALSE, sentiment_analysis |-> NoSentiment,
     has_keywords |-> FALSE, keywords |-> <<>>]

\* summarize without its except clause catching a provider failure: the
\* result carries no error
summarize_uncaught(text, max_length, style, out) ==
    IF out.raised THEN SummaryError("")
    ELSE IF text.t # "str" \/ out.content # "str"
         THEN SummaryError("Failed to summarize text: AttributeError")
    ELSE IF Len(str_split(out.summary)) = 0
         THEN SummaryError("Failed to summarize text: division by zero")
    ELSE SummaryResult(text, out.summary)

\* summarize taking the ratio to a summary of no words to be 0
summarize_unchecked_ratio(text, max_length, style, out) ==
    IF out.raised THEN SummaryError("Failed to summarize text: provider error")
    ELSE IF text.t # "str" \/ out.content # "str"
         THEN SummaryError("Failed to summarize text: AttributeError")
    ELSE IF Len(str_split(out.summary)) = 0
         THEN [SummaryResult(text, <<"s">>) EXCEPT !.summary = out.summary,
                                                    !.summary_length = 0,
                                                    !.compression_ratio = 0]
    ELSE SummaryResult(text, out.summary)

\* summarize(text, max_length, style): the provider is always called; after
\* it returns, text.split() and summary.split() raise AttributeError unless
\* text and the message content are str, and the ratio raises
\* ZeroDivisionError for a summary of no words.  Every exception ends in
\* {"error": ..., "summary": None}.  (TextSummarizerAgent.summarize of
\* text_summarizer_agent.py is the same code.)
summarize(text, max_length, style, out) ==
    IF out.raised THEN SummaryError("Failed to summarize text: provider error")
    ELSE IF text.t # "str" \/ out.content # "str"
         THEN SummaryError("Failed to summarize text: AttributeError")
    ELSE IF Len(str_split(out.summary)) = 0
         THEN SummaryError("Failed to summarize text: division by zero")
    ELSE SummaryResult(text, out.summary)

\* summarize_with_analysis: the result dict
analysis_result(text, max_length, style, include_sentiment, include_keywords, out, tb) ==
    LET r == summarize(text, max_length, style, out)
    IN  [r EXCEPT !.has_sentiment = Truthy(include_sentiment),
                  !.sentiment_analysis = IF Truthy(include_sentiment)
                                         THEN analyze_sentiment(text, tb)
                                         ELSE NoSentiment,
                  !.has_keywords = Truthy(include_keywords),
                  !.keywords = IF Truthy(include_keywords)
                               THEN extract_keywords(text, JInt(DefaultMaxKeywords))
                               ELSE <<>>]

\* summarize_with_analysis scoring the sentiment before it asks for the
\* summary
analysis_calls_sentiment_first(text, max_length, style, include_sentiment, include_keywords, out, tb) ==
    (IF Truthy(include_sentiment) THEN << SentimentCall(text, tb) >> ELSE <<>>)
    \o << ClientCall(text, max_length, style, out) >>
    \o (IF Truthy(include_keywords)
        THEN << KeywordsCall(text, JInt(DefaultMaxKeywords)) >> ELSE <<>>)

\* summarize_with_analysis: the components it invokes, in order
analysis_calls(text, max_length, style, include_sentiment, include_keywords, out, tb) ==
    << ClientCall(text, max_length, style, out) >>
    \o (IF Truthy(include_sentiment) THEN << SentimentCall(text, tb) >> ELSE <<>>)
    \o (IF Truthy(include_keywords)
        THEN << KeywordsCall(text, JInt(DefaultMaxKeywords)) >> ELSE <<>>)

---------------------------------------------------------------------------
(* Requests and responses of src/app.py.                                   *)

professional == JStr(<<"p", "r", "o", "f", "e", "s", "s", "i", "o", "n", "a", "l">>)
valid_styles ==
    { JStr(<<"p", "r", "o", "f", "e", "s", "s", "i", "o", "n", "a", "l">>), JStr(<<"c", "a", "s", "u", "a", "l">>), JStr(<<"b", "u", "l", "l", "e", "t", "_", "p", "o", "i", "n", "t", "s">>), JStr(<<"t", "e", "c", "h", "n", "i", "c", "a", "l">>) }

MinMaxLength == 10
MaxMaxLength == 1000
BatchLimit == 10

\* the value of data['texts']: absent, or a JSON value, a list holding items
NoTexts == [t |-> "absent", items |-> <<>>]
TextsList(items) == [t |-> "list", items |-> items]
TextsOther(t) == [t |-> t, items |-> <<>>]

\* a JSON object payload with the keys the handlers read
Payload(text, texts, max_length, style, include_sentiment, include_keywords, max_keywords) ==
    [null |-> FALSE, text |-> text, texts |-> texts, max_length |-> max_length,
     style |-> style, include_sentiment |-> include_sentiment,
     include_keywords |-> include_keywords, max_keywords |-> max_keywords]

EmptyObject == Payload(Absent, NoTexts, Absent, Absent, Absent, Absent, Absent)

\* request.get_json() returned None
NullData == [EmptyObject EXCEPT !.null = TRUE]

\* `not data`: None or the empty object
DataIsFalsy(d) == d.null \/ d = EmptyObject

\* data.get(key, default)
DataGet(v, default) == IF v = Absent THEN default ELSE v

Reply(status, success, error) ==
    [status |-> status, success |-> success, error |-> error,
     has_summary |-> FALSE, summary |-> <<>>,
     original_length |-> 0, summary_length |-> 0, compression_ratio |-> 0,
     has_sentiment |-> FALSE, sentiment_analysis |-> NoSentiment,
     has_keywords |-> FALSE, keywords |-> <<>>,
     has_results |-> FALSE, results |-> <<>>, total_processed |-> 0,
     has_models |-> FALSE, has_stats |-> FALSE]

NoResponse == Reply(0, FALSE, "")

\* a check that let the request through
Pass == Reply(0, TRUE, "")

NotInitialized ==
    Reply(500, FALSE, "AI Agent not initialized. Please check your configuration.")

\* a handler without its except clause: the exception leaves the handler
\* and no envelope is answered
Unexpected_escaping(exc) == NoResponse

Unexpected(exc) == Reply(500, FALSE, "An unexpected error occurred: " \o exc)

\* the text check testing the raw text for emptiness, without strip()
text_check_unstripped(d) ==
    IF DataIsFalsy(d) \/ d.text = Absent THEN Reply(400, FALSE, "No text provided")
    ELSE IF d.text.t # "str" THEN Unexpected("AttributeError")
    ELSE IF d.text.s = <<>> THEN Reply(400, FALSE, "Empty text provided")
    ELSE Pass

\* The text check of api_summarize, api_sentiment and api_keywords:
\* data['text'].strip() raises AttributeError unless the value is a str, and
\* the handler's except clause turns that into the 500 answer.
text_check(d) ==
    IF DataIsFalsy(d) \/ d.text = Absent THEN Reply(400, FALSE, "No text provided")
    ELSE IF d.text.t # "str" THEN Unexpected("AttributeError")
    ELSE IF str_strip(d.text.s) = <<>> THEN Reply(400, FALSE, "Empty text provided")
    ELSE Pass

\* text = data['text'].strip(), once the text check passed
stripped_text(d) == JStr(str_strip(d.text.s))

\* max_length as api_summarize forwards it: None, or int(max_length)
coerced_max_length(d) ==
    LET raw == DataGet(d.max_length, JNull)
    IN  IF raw = JNull THEN JNull ELSE JInt(py_int(raw).n)

\* the max_length check with the lower bound excluded (<= 10)
max_length_check_exclusive(d) ==
    LET raw == DataGet(d.max_length, JNull)
        c == py_int(raw)
    IN  IF raw = JNull THEN Pass
        ELSE IF c.ok
             THEN IF c.n <= MinMaxLength \/ c.n > MaxMaxLength
                  THEN Reply(400, FALSE, "Max length must be between 10 and 1000 words")
                  ELSE Pass
             ELSE IF c.exc \in {"ValueError", "TypeError"}
                  THEN Reply(400, FALSE, "Invalid max_length value")
                  ELSE Unexpected(c.exc)

\* the max_length check of api_summarize; an exception of int() other than
\* ValueError and TypeError reaches the handler's except clause
max_length_check(d) ==
    LET raw == DataGet(d.max_length, JNull)
        c == py_int(raw)
    IN  IF raw = JNull THEN Pass
        ELSE IF c.ok
             THEN IF c.n < MinMaxLength \/ c.n > MaxMaxLength
                  THEN Reply(400, FALSE, "Max length must be between 10 and 1000 words")
                  ELSE Pass
             ELSE IF c.exc \in {"ValueError", "TypeError"}
                  THEN Reply(400, FALSE, "Invalid max_length value")
                  ELSE Unexpected(c.exc)

\* the style check with 'technical' missing from valid_styles
style_check_three(d) ==
    IF DataGet(d.style, professional) \notin (valid_styles \ { JStr(<<"t", "e", "c", "h", "n", "i", "c", "a", "l">>) })
    THEN Reply(400, FALSE, "Invalid style. Must be one of: professional, casual, bullet_points, technical")
    ELSE Pass

\* the style check of api_summarize
style_check(d) ==
    IF DataGet(d.style, professional) \notin valid_styles
    THEN Reply(400, FALSE, "Invalid style. Must be one of: professional, casual, bullet_points, technical")
    ELSE Pass

\* the checks of api_summarize in the order of the code: the first that does
\* not pass is the answer
summarize_validation(d) ==
    IF text_check(d) # Pass THEN text_check(d)
    ELSE IF max_length_check(d) # Pass THEN max_length_check(d)
    ELSE style_check(d)

\* the answer of api_summarize for the result of summarize_with_analysis
summarize_reply(result, include_sentiment, include_keywords) ==
    IF result.error # "" THEN Reply(500, FALSE, result.error)
    ELSE [Reply(200, TRUE, "") EXCEPT
            !.has_summary = TRUE,
            !.summary = result.summary,
            !.original_length = result.original_length,
            !.summary_length = result.summary_length,
            !.compression_ratio = result.compression_ratio,
            !.has_sentiment = Truthy(include_sentiment) /\ result.has_sentiment,
            !.sentiment_analysis = IF Truthy(include_sentiment) /\ result.has_sentiment
                                   THEN result.sentiment_analysis ELSE NoSentiment,
            !.has_keywords = Truthy(include_keywords) /\ result.has_keywords,
            !.keywords = IF Truthy(include_keywords) /\ result.has_keywords
                         THEN result.keywords ELSE <<>>]

\* the shape check with the limit excluded (len(texts) >= 10)
batch_check_exclusive(d) ==
    IF DataIsFalsy(d) \/ d.texts = NoTexts THEN Reply(400, FALSE, "No texts provided")
    ELSE IF d.texts.t # "list" \/ Len(d.texts.items) = 0
         THEN Reply(400, FALSE, "Texts must be a non-empty list")
    ELSE IF Len(d.texts.items) >= BatchLimit
         THEN Reply(400, FALSE, "Maximum 10 texts allowed per batch")
    ELSE Pass

\* the shape check of api_batch_summarize
batch_check(d) ==
    IF DataIsFalsy(d) \/ d.texts = NoTexts THEN Reply(400, FALSE, "No texts provided")
    ELSE IF d.texts.t # "list" \/ Len(d.texts.items) = 0
         THEN Reply(400, FALSE, "Texts must be a non-empty list")
    ELSE IF Len(d.texts.items) > BatchLimit
         THEN Reply(400, FALSE, "Maximum 10 texts allowed per batch")
    ELSE Pass

---------------------------------------------------------------------------
(* The handlers of src/app.py.  One request is served at a time           *)
(* (single-threaded, synchronous); its values are discarded once the      *)
(* response is sent.                                                       *)

\* collaborator outcomes other than the nominal ones, per request
MaxDeviations == 1

Deviations(log) == Cardinality({i \in 1..Len(log) : ~log[i].nominal})

\* the scores explored where the sentiment is one part of an analysis
AnalysisPolarities == { -60, 0, 60 }
AnalysisSubjectivities == { 0, 80 }

TextBlobChoices(include_sentiment) ==
    IF Truthy(include_sentiment)
    THEN { tb \in TextBlobOutcomes :
             tb.raised \/ (tb.polarity \in AnalysisPolarities
                           /\ tb.subjectivity \in AnalysisSubjectivities) }
    ELSE {NominalTextBlob}

\* api_summarize dispatching to the agent as soon as the text check passed
summarize_calls_early(d, out, tb) ==
    IF text_check(d) # Pass THEN <<>>
    ELSE analysis_calls(stripped_text(d), coerced_max_length(d),
                        DataGet(d.style, professional),
                        DataGet(d.include_sentiment, JTrue),
                        DataGet(d.include_keywords, JTrue), out, tb)

\* the agent components api_summarize invokes for payload d
summarize_calls(d, out, tb) ==
    IF summarize_validation(d) # Pass THEN <<>>
    ELSE analysis_calls(stripped_text(d), coerced_max_length(d),
                        DataGet(d.style, professional),
                        DataGet(d.include_sentiment, JTrue),
                        DataGet(d.include_keywords, JTrue), out, tb)

\* the answer of api_summarize for payload d, agent initialized
summarize_response(d, out, tb) ==
    IF summarize_validation(d) # Pass THEN summarize_validation(d)
    ELSE summarize_reply(
            analysis_result(stripped_text(d), coerced_max_length(d),
                            DataGet(d.style, professional),
                            DataGet(d.include_sentiment, JTrue),
                            DataGet(d.include_keywords, JTrue), out, tb),
            DataGet(d.include_sentiment, JTrue),
            DataGet(d.include_keywords, JTrue))

api_summarize(d) ==
    /\ pc = "idle"
    /\ pc' = "responded"
    /\ endpoint' = "summarize"
    /\ data' = d
    /\ IF ~agent_initialized
       THEN response' = NotInitialized /\ calls' = <<>>
       ELSE IF summarize_validation(d) # Pass
            THEN response' = summarize_validation(d) /\ calls' = summarize_calls(d, NominalProvider, NominalTextBlob)
            ELSE \E out \in ProviderOutcomes :
                   \E tb \in TextBlobChoices(DataGet(d.include_sentiment, JTrue)) :
                       /\ calls' = summarize_calls(d, out, tb)
                       /\ response' = summarize_response(d, out, tb)
    /\ UNCHANGED << agent_initialized, results, kw_text, kw_max, kw_result >>

api_sentiment(d) ==
    /\ pc = "idle"
    /\ pc' = "responded"
    /\ endpoint' = "sentiment"
    /\ data' = d
    /\ IF ~agent_initialized
       THEN response' = NotInitialized /\ calls' = <<>>
       ELSE IF text_check(d) # Pass
            THEN response' = text_check(d) /\ calls' = <<>>
            ELSE \E tb \in TextBlobOutcomes :
                   LET result == analyze_sentiment(stripped_text(d), tb)
                   IN  /\ calls' = << SentimentCall(stripped_text(d), tb) >>
                       /\ response' =
                            IF result.error
                            THEN Reply(500, FALSE, "Failed to analyze sentiment")
                            ELSE [Reply(200, TRUE, "") EXCEPT
                                    !.has_sentiment = TRUE,
                                    !.sentiment_analysis = result]
    /\ UNCHANGED << agent_initialized, results, kw_text, kw_max, kw_result >>

api_keywords(d) ==
    /\ pc = "idle"
    /\ pc' = "responded"
    /\ endpoint' = "keywords"
    /\ data' = d
    /\ IF ~agent_initialized
       THEN response' = NotInitialized /\ calls' = <<>>
       ELSE IF text_check(d) # Pass
            THEN response' = text_check(d) /\ calls' = <<>>
            ELSE LET max_keywords == DataGet(d.max_keywords, JInt(DefaultMaxKeywords))
                 IN  /\ calls' = << KeywordsCall(stripped_text(d), max_keywords) >>
                     /\ response' = [Reply(200, TRUE, "") EXCEPT
                                       !.has_keywords = TRUE,
                                       !.keywords = extract_keywords(stripped_text(d),
                                                                     max_keywords)]
    /\ UNCHANGED << agent_initialized, results, kw_text, kw_max, kw_result >>

\* api_batch_summarize up to the call of agent.batch_summarize
api_batch_summarize(d) ==
    /\ pc = "idle"
    /\ endpoint' = "batch_summarize"
    /\ data' = d
    /\ calls' = <<>>
    /\ results' = <<>>
    /\ IF ~agent_initialized
       THEN response' = NotInitialized /\ pc' = "responded"
       ELSE IF batch_check(d) # Pass
            THEN response' = batch_check(d) /\ pc' = "responded"
            ELSE response' = NoResponse /\ pc' = "batch_loop"
    /\ UNCHANGED << agent_initialized, kw_text, kw_max, kw_result >>

\* the provider outcomes explored for the texts of a batch: a failure, a
\* summary without words, short summaries
BatchProviderOutcomes ==
    { ProviderRaises, ProviderReturnsBlank }
    \cup { ProviderReturns(w) : w \in 0..MaxSummaryWords }

\* the loop of batch_summarize putting each result in front of the earlier
\* ones
batch_summarize_step_prepending ==
    /\ pc = "batch_loop"
    /\ Len(results) < Len(data.texts.items)
    /\ LET text == data.texts.items[Len(results) + 1]
           max_length == DataGet(data.max_length, JNull)
           style == DataGet(data.style, professional)
           include_sentiment == DataGet(data.include_sentiment, JTrue)
           include_keywords == DataGet(data.include_keywords, JTrue)
       IN  \E out \in BatchProviderOutcomes :
             \E tb \in TextBlobChoices(include_sentiment) :
               LET made == analysis_calls(text, max_length, style, include_sentiment,
                                          include_keywords, out, tb)
               IN  /\ Deviations(calls \o made) <= MaxDeviations
                   /\ calls' = calls \o made
                   /\ results' = << analysis_result(text, max_length, style,
                                                 include_sentiment, include_keywords,
                                                 out, tb) >> \o results
    /\ UNCHANGED << agent_initialized, pc, endpoint, data, response,
                    kw_text, kw_max, kw_result >>

\* one iteration of the loop of batch_summarize: the next text, with the
\* keyword arguments api_batch_summarize passed on as it read them
batch_summarize_step ==
    /\ pc = "batch_loop"
    /\ Len(results) < Len(data.texts.items)
    /\ LET text == data.texts.items[Len(results) + 1]
           max_length == DataGet(data.max_length, JNull)
           style == DataGet(data.style, professional)
           include_sentiment == DataGet(data.include_sentiment, JTrue)
           include_keywords == DataGet(data.include_keywords, JTrue)
       IN  \E out \in BatchProviderOutcomes :
             \E tb \in TextBlobChoices(include_sentiment) :
               LET made == analysis_calls(text, max_length, style, include_sentiment,
                                          include_keywords, out, tb)
               IN  /\ Deviations(calls \o made) <= MaxDeviations
                   /\ calls' = calls \o made
                   /\ results' = Append(results,
                                    analysis_result(text, max_length, style,
                                                    include_sentiment, include_keywords,
                                                    out, tb))
    /\ UNCHANGED << agent_initialized, pc, endpoint, data, response,
                    kw_text, kw_max, kw_result >>

\* api_batch_summarize once batch_summarize returned its list
api_batch_summarize_return ==
    /\ pc = "batch_loop"
    /\ Len(results) = Len(data.texts.items)
    /\ pc' = "responded"
    /\ response' = [Reply(200, TRUE, "") EXCEPT
                      !.has_results = TRUE,
                      !.results = results,
                      !.total_processed = Len(results)]
    /\ UNCHANGED << agent_initialized, endpoint, data, calls, results,
                    kw_text, kw_max, kw_result >>

\* api_models without its check of agent_initialized
api_models_unguarded ==
    /\ pc = "idle"
    /\ pc' = "responded"
    /\ endpoint' = "models"
    /\ data' = EmptyObject
    /\ \E listed \in BOOLEAN :
          /\ calls' = << ModelsCall(listed) >>
          /\ response' = IF agent_initialized
                         THEN [Reply(200, TRUE, "") EXCEPT !.has_models = TRUE]
                         ELSE NotInitialized
    /\ UNCHANGED << agent_initialized, results, kw_text, kw_max, kw_result >>

\* GET /api/models
api_models ==
    /\ pc = "idle"
    /\ pc' = "responded"
    /\ endpoint' = "models"
    /\ data' = EmptyObject
    /\ IF ~agent_initialized
       THEN response' = NotInitialized /\ calls' = <<>>
       ELSE \E listed \in BOOLEAN :
              /\ calls' = << ModelsCall(listed) >>
              /\ response' = [Reply(200, TRUE, "") EXCEPT !.has_models = TRUE]
    /\ UNCHANGED << agent_initialized, results, kw_text, kw_max, kw_result >>

\* GET /api/stats
api_stats ==
    /\ pc = "idle"
    /\ pc' = "responded"
    /\ endpoint' = "stats"
    /\ data' = EmptyObject
    /\ IF ~agent_initialized
       THEN response' = NotInitialized /\ calls' = <<>>
       ELSE /\ calls' = << StatsCall >>
            /\ response' = [Reply(200, TRUE, "") EXCEPT !.has_stats = TRUE]
    /\ UNCHANGED << agent_initialized, results, kw_text, kw_max, kw_result >>

\* the response is sent and the request's values are dropped
next_request ==
    /\ pc \in {"responded", "returned"}
    /\ pc' = "idle"
    /\ endpoint' = "none"
    /\ data' = EmptyObject
    /\ response' = NoResponse
    /\ calls' = <<>>
    /\ results' = <<>>
    /\ kw_text' = JStr(<<>>)
    /\ kw_max' = JInt(DefaultMaxKeywords)
    /\ kw_result' = <<>>
    /\ UNCHANGED agent_initialized

\* a direct call agent.extract_keywords(text, max_keywords)
call_extract_keywords(text, max_keywords) ==
    /\ pc = "idle"
    /\ pc' = "returned"
    /\ kw_text' = text
    /\ kw_max' = max_keywords
    /\ kw_result' = extract_keywords(text, max_keywords)
    /\ UNCHANGED << agent_initialized, endpoint, data, response, calls, results >>

---------------------------------------------------------------------------
(* The requests and calls explored.                                        *)

PlainText == JStr(<<"B", "i", "g", " ", "d", "a", "t", "a", ",", " ", "b", "i", "g", " ", "c", "o", "d", "e">>)
PaddedText == JStr(<<" ", "\t", "d", "a", "t", "a", "\n">>)
BlankText == JStr(<<" ", " ", "\t">>)
EmptyText == JStr(<<>>)

TextValues == { Absent, PlainText, PaddedText, BlankText, EmptyText, JNull, JInt(7), JList }

MaxLengthValues ==
    { Absent, JNull, JTrue, JFalse, JList, JInf }
    \cup { JInt(n) : n \in { -20, 0, 5, 9, 10, 11, 100, 999, 1000, 1001, 1500 } }
    \cup { JFloat(n) : n \in { 99, 507, 10005, 10010 } }
    \cup { JStr(<<"1", "0", "0">>), JStr(<<" ", "5", "0", " ">>), JStr(<<"5">>), JStr(<<"-", "1", "0", "0">>), JStr(<<"a", "b", "c">>),
           JStr(<<"5", "0", ".", "7">>), JStr(<<>>) }

StyleValues ==
    valid_styles
    \cup { Absent, JNull, JInt(1), JList, JStr(<<"p", "o", "e", "t", "i", "c">>), JStr(<<"P", "r", "o", "f", "e", "s", "s", "i", "o", "n", "a", "l">>),
           JStr(<<>>) }

FlagValues == { Absent, JTrue, JFalse, JNull, JInt(0), JStr(<<"f", "a", "l", "s", "e">>) }

MaxKeywordsValues ==
    { Absent, JNull, JTrue, JStr(<<"3">>), JFloat(20) }
    \cup { JInt(n) : n \in { -1, 0, 1, 2, 10 } }

SummarizePayloads ==
    { NullData, EmptyObject }
    \cup { Payload(t, NoTexts, m, s, Absent, Absent, Absent) :
             t \in TextValues, m \in MaxLengthValues, s \in StyleValues }
    \cup { Payload(t, NoTexts, m, s, fs, fk, Absent) :
             t \in { PlainText }, m \in { Absent, JInt(100), JInt(5) },
             s \in { Absent, JStr(<<"p", "o", "e", "t", "i", "c">>) }, fs \in FlagValues, fk \in FlagValues }

SentimentPayloads ==
    { NullData, EmptyObject }
    \cup { Payload(t, NoTexts, Absent, Absent, Absent, Absent, Absent) : t \in TextValues }

KeywordsPayloads ==
    { NullData, EmptyObject }
    \cup { Payload(t, NoTexts, Absent, Absent, Absent, Absent, k) :
             t \in TextValues, k \in MaxKeywordsValues }

\* longest batch whose items are drawn freely
MaxMixedBatch == 2

\* how far past the limit the uniform batches go
MaxOverLimit == 1

BatchItems == { PlainText, BlankText, JNull }

RECURSIVE SeqsUpTo(_, _)
SeqsUpTo(S, n) ==
    IF n = 0 THEN { <<>> }
    ELSE LET shorter == SeqsUpTo(S, n - 1)
         IN  shorter \cup { Append(q, x) : q \in { r \in shorter : Len(r) = n - 1 }, x \in S }

Uniform(n) == [i \in 1..n |-> PlainText]

MixedTexts == { TextsList(q) : q \in SeqsUpTo(BatchItems, MaxMixedBatch) }

ShapeTexts ==
    { NoTexts, TextsOther("null"), TextsOther("str"), TextsOther("int") }
    \cup { TextsList(Uniform(n)) : n \in BatchLimit..(BatchLimit + MaxOverLimit) }

\* max_length and style of the batches: none, both out of the ranges of
\* /api/summarize, a max_length that is no number
BatchParameters ==
    { << Absent, Absent >>, << JInt(5), JStr(<<"p", "o", "e", "t", "i", "c">>) >>, << JStr(<<"a", "b", "c">>), Absent >> }

BatchPayloads ==
    { NullData, EmptyObject }
    \cup { Payload(Absent, x, Absent, Absent, JFalse, JFalse, Absent) : x \in ShapeTexts }
    \cup { Payload(Absent, x, p[1], p[2], f, f, Absent) :
             x \in MixedTexts, p \in BatchParameters, f \in { Absent, JFalse } }

\* the words direct calls of extract_keywords are composed of
Vocabulary ==
    { <<"D", "a", "t", "a">>, <<"d", "a", "t", "a", ",">>, <<"c", "o", "d", "e">>, <<"t", "h", "e">>, <<"a", "b", "o", "u", "t">>, <<"d", "o", "n", "'", "t">>, <<"m", "y", "_", "i", "d">>, <<"w", "e", "b", "\t", "a", "p", "p", "s">> }

MaxWords == 3

\* some distinct four-letter words, for texts with more keywords than the
\* default max_keywords
Letters == << "b", "c", "d", "f", "g", "h", "j", "k", "l", "m", "n", "p", "q", "r" >>
MaxExtraWords == 2

ManyWords(n) == [i \in 1..(5 * n - 1) |->
                    IF i % 5 = 0 THEN " " ELSE Letters[(i \div 5) + 1]]

RECURSIVE join(_)
join(ws) ==
    IF ws = <<>> THEN <<>>
    ELSE IF Len(ws) = 1 THEN Head(ws)
    ELSE Head(ws) \o << " " >> \o join(Tail(ws))

\* a text whose ranking differs from the order of first occurrence
RankedSample == <<"m", "y", "_", "i", "d", " ", "c", "o", "d", "e", " ", "D", "a", "t", "a", " ", "d", "a", "t", "a", ",", " ", "c", "o", "d", "e", ".">>

DirectTexts ==
    { JStr(join(ws)) : ws \in SeqsUpTo(Vocabulary, MaxWords) }
    \cup { JStr(RankedSample) }
    \cup { JStr(ManyWords(n)) :
             n \in (DefaultMaxKeywords - 1)..(DefaultMaxKeywords + MaxExtraWords) }

MaxKeywordsArg == 3

DirectMaxKeywords ==
    { JInt(n) : n \in { -2, -1 } \cup 0..MaxKeywordsArg } \cup { JInt(DefaultMaxKeywords) }

---------------------------------------------------------------------------

Init ==
    /\ agent_initialized \in BOOLEAN
    /\ pc = "idle"
    /\ endpoint = "none"
    /\ data = EmptyObject
    /\ response = NoResponse
    /\ calls = <<>>
    /\ results = <<>>
    /\ kw_text = JStr(<<>>)
    /\ kw_max = JInt(DefaultMaxKeywords)
    /\ kw_result = <<>>

\* a request arrives only when none is being served
Idle == pc = "idle"

Next ==
    \/ Idle /\ \E d \in SummarizePayloads : api_summarize(d)
    \/ Idle /\ \E d \in SentimentPayloads : api_sentiment(d)
    \/ Idle /\ \E d \in KeywordsPayloads : api_keywords(d)
    \/ Idle /\ \E d \in BatchPayloads : api_batch_summarize(d)
    \/ api_models
    \/ api_stats
    \/ batch_summarize_step
    \/ api_batch_summarize_return
    \/ next_request

\* the web application serving requests
Spec == Init /\ [][Next]_vars

\* the agent constructed by a script that calls it directly
KwInit == Init /\ agent_initialized

KwNext ==
    \/ Idle /\ \E text \in DirectTexts : \E max_keywords \in DirectMaxKeywords :
                  call_extract_keywords(text, max_keywords)
    \/ next_request

\* the agent used as a library: direct calls of extract_keywords
KwSpec == KwInit /\ [][KwNext]_vars

---------------------------------------------------------------------------
(* Properties.  The predicates below describe requests and answers in the  *)
(* words of the specification, independently of the handlers' checks.      *)

Served(ep) == pc = "responded" /\ endpoint = ep /\ agent_initialized

\* a string with at least one character that is not whitespace; the payload
\* of a request is a JSON object (or no payload at all)
NonBlankStr(v) == v.t = "str" /\ \E i \in 1..Len(v.s) : v.s[i] \notin { " ", "\t", "\n" }
BlankStr(v) == v.t = "str" /\ \A i \in 1..Len(v.s) : v.s[i] \in { " ", "\t", "\n" }

Rejected == response.status = 400 /\ ~response.success

StyleNames ==
    { <<"p", "r", "o", "f", "e", "s", "s", "i", "o", "n", "a", "l">>, <<"c", "a", "s", "u", "a", "l">>, <<"b", "u", "l", "l", "e", "t", "_", "p", "o", "i", "n", "t", "s">>, <<"t", "e", "c", "h", "n", "i", "c", "a", "l">> }

StyleListed(v) == v.t = "str" /\ v.s \in StyleNames

MaxLengthMessages ==
    { "Max length must be between 10 and 1000 words", "Invalid max_length value" }

ClientCalls == { i \in 1..Len(calls) : calls[i].op = "chat_completion" }

\* C1: on /api/summarize with a non-empty text and an integer max_length, an
\* out-of-range max_length (< 10 or > 1000) is answered 400 with
\* success=false, and an in-range one (10 and 1000 included) is not rejected
\* by the max_length check, nor by anything when the style is valid.
C1_MaxLengthRange ==
    (Served("summarize") /\ NonBlankStr(data.text) /\ data.max_length.t = "int")
    => /\ (data.max_length.n < 10 \/ data.max_length.n > 1000) => Rejected
       /\ (data.max_length.n >= 10 /\ data.max_length.n <= 1000)
          => /\ response.error \notin MaxLengthMessages
             /\ (data.style = Absent \/ StyleListed(data.style)) => response.status # 400

\* a request with max_length = 1000 was let through and answered 200
C1_Witness ==
    /\ Served("summarize")
    /\ data.max_length = JInt(1000)
    /\ response.status = 200
    /\ ClientCalls # {}

\* C2: on /api/summarize a max_length that is present, not null and not an
\* integer (a numeric string, a fractional number, a boolean) is answered
\* 400 and nothing is forwarded to the agent.
C2_NonIntegerRejected ==
    (Served("summarize") /\ NonBlankStr(data.text)
       /\ data.max_length.t \notin { "absent", "null", "int" })
    => Rejected /\ calls = <<>>

\* C3: on /api/summarize with otherwise valid fields, a style outside the
\* four listed values is answered 400 with success=false; each listed style,
\* and an absent style, is not.
C3_StyleEnumeration ==
    (Served("summarize") /\ NonBlankStr(data.text)
       /\ \/ data.max_length \in { Absent, JNull }
          \/ data.max_length.t = "int" /\ data.max_length.n \in 10..1000)
    => /\ (data.style # Absent /\ ~StyleListed(data.style)) => Rejected
       /\ (data.style = Absent \/ StyleListed(data.style)) => response.status # 400

\* style = "poetic" was rejected with the style message
C3_Witness ==
    /\ Served("summarize")
    /\ NonBlankStr(data.text)
    /\ data.max_length = JInt(100)
    /\ data.style = JStr(<<"p", "o", "e", "t", "i", "c">>)
    /\ Rejected
    /\ response.error \notin MaxLengthMessages

TextEndpoints == { "summarize", "sentiment", "keywords" }

TextMessages == { "No text provided", "Empty text provided" }

\* C4: on /api/summarize, /api/sentiment and /api/keywords a payload without
\* a text field, or whose text is a string empty after trimming, is answered
\* 400 with success=false; a text that is a string non-empty after trimming
\* is never rejected by the text check.
C4_TextCheck ==
    (pc = "responded" /\ endpoint \in TextEndpoints /\ agent_initialized)
    => /\ (data.null \/ data.text = Absent \/ BlankStr(data.text))
          => Rejected /\ response.error \in TextMessages
       /\ NonBlankStr(data.text) => response.error \notin TextMessages

\* a whitespace-only text was rejected by /api/keywords
C4_Witness ==
    /\ Served("keywords")
    /\ data.text = BlankText
    /\ Rejected
    /\ response.error = "Empty text provided"

BatchShapeOk(d) ==
    ~d.null /\ d.texts.t = "list" /\ Len(d.texts.items) \in 1..10

\* C5: on /api/batch-summarize a request whose texts is missing, not a
\* list, empty or longer than 10 is answered 400 with success=false; a list
\* of 1 to 10 items enters the loop and is answered 200 with every item
\* processed.
C5_BatchShape ==
    /\ Served("batch_summarize")
       => IF BatchShapeOk(data)
          THEN /\ response.status = 200
               /\ response.success
               /\ response.total_processed = Len(data.texts.items)
          ELSE Rejected
    /\ pc = "batch_loop" => BatchShapeOk(data)

\* a batch of 10 texts was accepted and processed
C5_Witness ==
    /\ Served("batch_summarize")
    /\ Len(data.texts.items) = 10
    /\ response.status = 200
    /\ response.total_processed = 10
    /\ Cardinality(ClientCalls) = 10

\* C6: in batch mode no text reaches the summarization client unless it is
\* a string non-empty after trimming, max_length (if present) is an integer
\* in [10,1000] and style is one of the four listed values.
C6_BatchItemsValidated ==
    (endpoint = "batch_summarize")
    => \A i \in ClientCalls :
          /\ NonBlankStr(calls[i].text)
          /\ \/ calls[i].max_length = JNull
             \/ calls[i].max_length.t = "int" /\ calls[i].max_length.n \in 10..1000
          /\ StyleListed(calls[i].style)

\* C7: whenever /api/summarize or /api/batch-summarize answers 400, no call
\* of the summarization client, the sentiment scorer or the keyword
\* extractor was made for the request.
C7_ValidationBeforeDispatch ==
    (pc = "responded" /\ endpoint \in { "summarize", "batch_summarize" }
       /\ response.status = 400)
    => calls = <<>>

\* a request that passed the text and max_length checks was rejected for
\* its style
C7_Witness ==
    /\ Served("summarize")
    /\ NonBlankStr(data.text)
    /\ data.max_length = JInt(100)
    /\ data.style = JNull
    /\ response.status = 400
    /\ calls = <<>>

Returned == pc = "returned" /\ kw_text.t = "str" /\ kw_max.t = "int"

\* C8: for every text and every integer max_keywords (0 and negative values
\* included) extract_keywords returns at most max_keywords keywords.
C8_AtMostMaxKeywords ==
    Returned => Len(kw_result) <= kw_max.n

\* the ranking of the words of a token sequence F
Frequency(F, w) == Cardinality({ i \in 1..Len(F) : F[i] = w })
FirstOccurrence(F, w) ==
    CHOOSE i \in 1..Len(F) : F[i] = w /\ \A j \in 1..(i - 1) : F[j] # w
RanksBefore(F, v, w) ==
    \/ Frequency(F, v) > Frequency(F, w)
    \/ Frequency(F, v) = Frequency(F, w) /\ FirstOccurrence(F, v) < FirstOccurrence(F, w)
Range(q) == { q[i] : i \in 1..Len(q) }

\* C9: the list extract_keywords returns is ordered by non-increasing
\* frequency in the filtered token sequence, equal frequencies in the order
\* of first occurrence in the text; no token outside the list ranks before
\* one inside it, and for max_keywords >= 0 the list holds
\* min(max_keywords, number of distinct tokens) entries.
C9_RankedPrefix ==
    Returned
    => LET F == filtered_words(kw_text.s)
           R == kw_result
       IN  /\ Range(R) \subseteq Range(F)
           /\ \A i, j \in 1..Len(R) : i < j => RanksBefore(F, R[i], R[j])
           /\ \A w \in Range(F) \ Range(R) : \A i \in 1..Len(R) : RanksBefore(F, R[i], w)
           /\ kw_max.n >= 0 => Len(R) = Min(kw_max.n, Cardinality(Range(F)))

\* frequency beats position, the tie of "code" and "data" goes to the one
\* that occurs first, and the least frequent token, first in the text, is
\* cut off
C9_Witness ==
    /\ Returned
    /\ kw_text = JStr(RankedSample)
    /\ kw_max = JInt(2)
    /\ kw_result = << <<"c", "o", "d", "e">>, <<"d", "a", "t", "a">> >>
    /\ filtered_words(kw_text.s) = << <<"m", "y", "_", "i", "d">>, <<"c", "o", "d", "e">>, <<"d", "a", "t", "a">>, <<"d", "a", "t", "a">>, <<"c", "o", "d", "e">> >>

\* Tokens, independently of split(): a run is a maximal stretch of the
\* lowercased text L without whitespace; its token is the run with every
\* character deleted that is not a letter, a digit or an underscore
IsBlank(c) == c \in { " ", "\t", "\n" }
Runs(L) ==
    { r \in (1..Len(L)) \X (1..Len(L)) :
        /\ r[1] <= r[2]
        /\ \A i \in r[1]..r[2] : ~IsBlank(L[i])
        /\ r[1] = 1 \/ IsBlank(L[r[1] - 1])
        /\ r[2] = Len(L) \/ IsBlank(L[r[2] + 1]) }
IsTokenChar(c) == c \in (ascii_lowercase \cup digits \cup { "_" })
TokenOf(L, r) == SelectSeq(SubSeq(L, r[1], r[2]), IsTokenChar)
Candidates(L) ==
    { w \in { TokenOf(L, r) : r \in Runs(L) } : Len(w) >= 4 /\ w \notin stop_words }

\* C10 (amended): every keyword extract_keywords returns for a string is a
\* token obtained by lowercasing the text, deleting every character that is
\* neither a letter, a digit, an underscore nor whitespace, and splitting on
\* whitespace; it has at least 4 characters, is no stop word and occurs once
\* in the list; and every such token is a candidate: only stop words and
\* words shorter than 4 characters are filtered out.
C10_KeywordsAreTokens ==
    Returned
    => LET C == Candidates(str_lower(kw_text.s))
           R == kw_result
       IN  /\ Range(R) \subseteq C
           /\ \A i, j \in 1..Len(R) : R[i] = R[j] => i = j
           /\ Range(filtered_words(kw_text.s)) = C
           /\ (kw_max.n >= Cardinality(C)) => Range(R) = C

\* "Data" and "data," count as one keyword, "don't" gives "dont", and the
\* short "web" and the stop word "about" are left out
C10_Witness ==
    /\ Returned
    /\ kw_text = JStr(<<"D", "a", "t", "a", " ", "w", "e", "b", "\t", "a", "p", "p", "s">> \o << " " >> \o <<"d", "o", "n", "'", "t">>)
    /\ kw_max = JInt(DefaultMaxKeywords)
    /\ kw_result = << <<"d", "a", "t", "a">>, <<"a", "p", "p", "s">>, <<"d", "o", "n", "t">> >>

\* the ASCII punctuation characters (string.punctuation, but for the double
\* quote, the backslash and the backquote, which no text here contains)
Punctuation ==
    { "!", "#", "$", "%", "&", "'", "(", ")", "*", "+", ",", "-", ".", "/", ":", ";",
      "<", "=", ">", "?", "@", "[", "]", "^", "_", "{", "|", "}", "~" }
IsNotPunctuation(c) == c \notin Punctuation
UnpunctuatedTokenOf(L, r) == SelectSeq(SubSeq(L, r[1], r[2]), IsNotPunctuation)
UnpunctuatedCandidates(L) ==
    { w \in { UnpunctuatedTokenOf(L, r) : r \in Runs(L) } :
        Len(w) >= 4 /\ w \notin stop_words }

\* C10: every keyword extract_keywords returns for a string is a token
\* obtained by lowercasing the text, deleting punctuation and splitting on
\* whitespace, has at least 4 characters, is no stop word and occurs once in
\* the list; a token is left out of the candidates only if it is a stop word
\* or shorter than 4 characters.
C10_PunctuationDeleted ==
    Returned
    => LET C == UnpunctuatedCandidates(str_lower(kw_text.s))
           R == kw_result
       IN  /\ Range(R) \subseteq C
           /\ \A i, j \in 1..Len(R) : R[i] = R[j] => i = j
           /\ Range(filtered_words(kw_text.s)) = C
           /\ (kw_max.n >= Cardinality(C)) => Range(R) = C


---------------------------------------------------------------------------
(* Sentiment, summaries and batches                                        *)

Labels == { "positive", "negative", "neutral" }

\* the request was answered by analyze_sentiment scoring the text: the
\* lexical model returned calls[1].polarity
Scored == Served("sentiment") /\ calls # <<>> /\ ~calls[1].raised

\* C11: the label analyze_sentiment returns is positive iff the polarity of
\* the lexical model is > 0.1, negative iff it is < -0.1 and neutral
\* otherwise (0.1 and -0.1 included); every call that does not fail returns
\* one of the three labels.
C11_ThresholdPolicy ==
    Scored
    => LET polarity == calls[1].polarity
           label == response.sentiment_analysis.sentiment
       IN  /\ response.has_sentiment /\ ~response.sentiment_analysis.error
           /\ label \in Labels
           /\ label = "positive" <=> polarity > 10
           /\ label = "negative" <=> polarity < -10
           /\ label = "neutral" <=> (polarity >= -10 /\ polarity <= 10)

\* a text of polarity exactly 0.1 was labelled neutral
C11_Witness ==
    /\ Scored
    /\ calls[1].polarity = 10
    /\ response.sentiment_analysis.sentiment = "neutral"

\* the calls of the summarization client, in the order they were made: in a
\* batch the i-th one is the call made for the i-th text
IsClientCall(c) == c.op = "chat_completion"
ClientLog == SelectSeq(calls, IsClientCall)

\* /api/summarize passed validation and called the agent
Summarized == Served("summarize") /\ calls # <<>>

\* a batch request whose loop is running or has run
InBatch == endpoint = "batch_summarize" /\ pc \in { "batch_loop", "responded" }

\* C12: when the chat-completion call fails, summarize returns a result
\* with the error field set and no summary instead of raising;
\* summarize_with_analysis keeps that error (in a batch it is the error of
\* the text's slot), and /api/summarize answers 500 with success=false and
\* that error message.
C12_ProviderFailureSurfaced ==
    /\ (Summarized /\ calls[1].raised)
       => /\ response.status = 500 /\ ~response.success
          /\ response.error = "Failed to summarize text: provider error"
          /\ ~response.has_summary
    /\ InBatch
       => \A i \in 1..Len(results) :
             ClientLog[i].raised
             => /\ results[i].error = "Failed to summarize text: provider error"
                /\ ~results[i].has_summary

\* the provider failed on a valid /api/summarize request, sentiment and
\* keywords were still computed, and the answer is the 500 envelope
C12_Witness ==
    /\ Summarized
    /\ calls[1].raised
    /\ Len(calls) = 3
    /\ response.status = 500

\* the number of whitespace-separated words of a text: the positions where
\* a word starts
WordCount(L) ==
    Cardinality({ i \in 1..Len(L) : ~IsBlank(L[i]) /\ (i = 1 \/ IsBlank(L[i - 1])) })

\* the provider returned a summary without any word in it
EmptySummary(c) == ~c.raised /\ c.content = "str" /\ WordCount(c.summary) = 0

\* C13: when the provider returns an empty or whitespace-only summary,
\* summarize returns a result with the error field set (the division by
\* zero is caught), and /api/summarize answers with the error envelope:
\* 500, success=false, an error message.
C13_EmptySummaryCaught ==
    /\ (Summarized /\ EmptySummary(calls[1]))
       => /\ response.status = 500 /\ ~response.success
          /\ response.error = "Failed to summarize text: division by zero"
    /\ InBatch
       => \A i \in 1..Len(results) :
             (EmptySummary(ClientLog[i]) /\ data.texts.items[i].t = "str")
             => results[i].error = "Failed to summarize text: division by zero"

\* a whitespace-only summary was answered with the error envelope
C13_Witness ==
    /\ Summarized
    /\ calls[1].summary = << " ", "\n" >>
    /\ ~calls[1].raised
    /\ response.status = 500
    /\ response.error = "Failed to summarize text: division by zero"

\* h hundredths is a / b rounded to two decimals: no hundredth is nearer
IsRounded(h, a, b) ==
    LET d == h * b - 100 * a IN (IF d < 0 THEN -d ELSE d) * 2 <= b

\* the metadata r of a successful summarize call for text L with summary S
MetadataOf(r, L, S) ==
    /\ r.summary = S
    /\ r.original_length = WordCount(L)
    /\ r.summary_length = WordCount(S)
    /\ r.summary_length >= 1
    /\ IsRounded(r.compression_ratio, r.original_length, r.summary_length)

\* C14: on every successful summarize call original_length is the number of
\* whitespace-separated words of the text, summary_length that of the
\* returned summary (at least 1) and compression_ratio is
\* original_length / summary_length rounded to 2 decimals.
C14_Metadata ==
    /\ (Summarized /\ response.status = 200)
       => MetadataOf(response, data.text.s, calls[1].summary)
    /\ InBatch
       => \A i \in 1..Len(results) :
             results[i].error = ""
             => MetadataOf(results[i], data.texts.items[i].s, ClientLog[i].summary)

\* 4 words summarized in 6: the ratio 0.666... is reported as 0.67
C14_Witness ==
    /\ Summarized
    /\ response.status = 200
    /\ response.original_length = 4
    /\ response.summary_length = 6
    /\ response.compression_ratio = 67

\* 1 word summarized in 8: the ratio 0.125 lies halfway between two
\* hundredths and is reported as 0.12
C14_TieWitness ==
    /\ Summarized
    /\ response.status = 200
    /\ response.original_length = 1
    /\ response.summary_length = 8
    /\ response.compression_ratio = 12

IsSentimentCall(c) == c.op = "analyze_sentiment"
SentimentLog == SelectSeq(calls, IsSentimentCall)

\* what the provider and the lexical model did in a logged call
OutcomeOf(c) == [raised |-> c.raised, content |-> c.content, summary |-> c.summary]
ScoreOf(c) == [raised |-> c.raised, polarity |-> c.polarity, subjectivity |-> c.subjectivity]

\* the result of summarize_with_analysis for the i-th text of the batch on
\* its own, the collaborators behaving as they did for that text
AloneResult(i) ==
    analysis_result(data.texts.items[i],
                    DataGet(data.max_length, JNull),
                    DataGet(data.style, professional),
                    DataGet(data.include_sentiment, JTrue),
                    DataGet(data.include_keywords, JTrue),
                    OutcomeOf(ClientLog[i]),
                    IF Truthy(DataGet(data.include_sentiment, JTrue))
                    THEN ScoreOf(SentimentLog[i]) ELSE NominalTextBlob)

\* the summarization of the i-th text failed: the item is not a string,
\* the provider raised, or it returned no word to divide by
ItemFailed(i) ==
    \/ data.texts.items[i].t # "str"
    \/ ClientLog[i].raised
    \/ ClientLog[i].content # "str"
    \/ WordCount(ClientLog[i].summary) = 0

\* C15: a batch of n texts (1 <= n <= 10) that passed validation is
\* processed one text after the other in input order; the answer is
\* success=true with n slots, slot i being the result for text i, and
\* total_processed = n.  A failure on text i puts an error in slot i and in
\* no other slot, the loop goes on, and every slot is what processing its
\* text alone gives.
C15_BatchIsolation ==
    /\ InBatch
       => /\ Len(ClientLog) = Len(results)
          /\ Len(results) <= Len(data.texts.items)
          /\ \A i \in 1..Len(results) :
                /\ ClientLog[i].text = data.texts.items[i]
                /\ results[i] = AloneResult(i)
                /\ results[i].error # "" <=> ItemFailed(i)
    /\ (Served("batch_summarize") /\ BatchShapeOk(data))
       => /\ response.status = 200 /\ response.success
          /\ response.has_results
          /\ response.results = results
          /\ Len(response.results) = Len(data.texts.items)
          /\ response.total_processed = Len(data.texts.items)

\* the provider failed on the first of two different texts: slot 1 carries
\* the error, slot 2 the summary of the second text
C15_Witness ==
    /\ Served("batch_summarize")
    /\ Len(data.texts.items) = 2
    /\ data.texts.items[1] # data.texts.items[2]
    /\ ClientLog[1].raised
    /\ response.results[1].error # ""
    /\ response.results[2].error = ""
    /\ response.results[2].has_summary
    /\ response.total_processed = 2

Endpoints == { "summarize", "batch_summarize", "sentiment", "keywords" }

\* C16: whatever the payload and whether or not the agent is initialized,
\* each of the four POST handlers ends with a JSON envelope: the status is
\* 200, 400 or 500, success=true goes with 200 only, and every 400 and 500
\* answer has success=false and an error message; the loop of a batch
\* request has a text left to process or returns.
C16_AlwaysAnEnvelope ==
    /\ (pc = "responded" /\ endpoint \in Endpoints)
       => /\ response.status \in { 200, 400, 500 }
          /\ response.success <=> response.status = 200
          /\ response.status \in { 400, 500 } => response.error # ""
    /\ pc = "batch_loop"
       => Len(results) <= Len(data.texts.items)

\* int(float('inf')) raised OverflowError, which the max_length check does
\* not catch: the handler's except clause answered 500
C16_Witness ==
    /\ Served("summarize")
    /\ data.max_length = JInf
    /\ response.status = 500
    /\ ~response.success
    /\ response.error = "An unexpected error occurred: OverflowError"

ErrorTagged(s) == s.error /\ s.sentiment = "unknown"

\* C17: analyze_sentiment does not raise.  When the lexical model fails, or
\* the text is not a string, its result is error-tagged (error set,
\* sentiment 'unknown'): /api/sentiment answers 500 with success=false for
\* it, and summarize_with_analysis stores it as the sentiment_analysis of
\* its result.
C17_SentimentFailureTagged ==
    /\ (Served("sentiment") /\ calls # <<>> /\ calls[1].raised)
       => /\ response.status = 500 /\ ~response.success
          /\ response.error = "Failed to analyze sentiment"
    /\ (Summarized /\ Len(SentimentLog) = 1 /\ SentimentLog[1].raised
          /\ response.status = 200)
       => response.has_sentiment /\ ErrorTagged(response.sentiment_analysis)
    /\ InBatch
       => \A i \in 1..Len(results) :
             (results[i].has_sentiment
                /\ (SentimentLog[i].raised \/ data.texts.items[i].t # "str"))
             => ErrorTagged(results[i].sentiment_analysis)

\* the lexical model failed on /api/sentiment and the answer is 500
C17_Witness ==
    /\ Served("sentiment")
    /\ calls # <<>>
    /\ calls[1].raised
    /\ response.status = 500
    /\ ~response.success

\* a null item of a batch was given to analyze_sentiment, which returned
\* the error-tagged result
C17_NonStringWitness ==
    /\ Served("batch_summarize")
    /\ response.status = 200
    /\ Len(results) >= 1
    /\ data.texts.items[1] = JNull
    /\ results[1].has_sentiment
    /\ ErrorTagged(results[1].sentiment_analysis)

IsKeywordsCall(c) == c.op = "extract_keywords"

\* a flag of the payload is on: absent (the default is true) or true; a
\* value that is not a boolean counts as Python's bool() takes it
FlagOn(v) ==
    CASE v = Absent -> TRUE
      [] v.t = "bool" -> v = JTrue
      [] OTHER -> Truthy(v)

\* the components one summarize_with_analysis call invokes for the flags
\* of the request, in order
Pipeline ==
    << "chat_completion" >>
    \o (IF FlagOn(data.include_sentiment) THEN << "analyze_sentiment" >> ELSE <<>>)
    \o (IF FlagOn(data.include_keywords) THEN << "extract_keywords" >> ELSE <<>>)

\* C18: one summarize_with_analysis call invokes the summarization client
\* first, then the sentiment scorer iff include_sentiment is true, then the
\* keyword extractor iff include_keywords is true (an absent flag is true);
\* a successful /api/summarize answer has sentiment_analysis iff
\* include_sentiment was true and keywords iff include_keywords was true.
C18_PipelineOrder ==
    /\ Summarized
       => /\ [i \in 1..Len(calls) |-> calls[i].op] = Pipeline
          /\ response.status = 200
             => /\ response.has_sentiment <=> FlagOn(data.include_sentiment)
                /\ response.has_keywords <=> FlagOn(data.include_keywords)
    /\ InBatch
       => /\ Len(calls) = Len(results) * Len(Pipeline)
          /\ \A p \in 1..Len(calls) :
                calls[p].op = Pipeline[((p - 1) % Len(Pipeline)) + 1]

\* with include_sentiment false and include_keywords true the client was
\* called, then the keyword extractor, and the answer has keywords only
C18_Witness ==
    /\ Summarized
    /\ data.include_sentiment = JFalse
    /\ data.include_keywords = JTrue
    /\ response.status = 200
    /\ Len(calls) = 2
    /\ IsClientCall(calls[1])
    /\ IsKeywordsCall(calls[2])
    /\ ~response.has_sentiment
    /\ response.has_keywords

\* C19: the description analyze_sentiment returns agrees with the label of
\* the same result, for every polarity in [-1,1]: it says positive or very
\* positive exactly when the label is positive, negative or very negative
\* exactly when the label is negative, and neutral exactly when the label
\* is neutral.
C19_DescriptionAgrees ==
    Scored
    => LET label == response.sentiment_analysis.sentiment
           pol_desc == response.sentiment_analysis.description.pol_desc
       IN  /\ pol_desc \in { "positive", "very positive" } <=> label = "positive"
           /\ pol_desc \in { "negative", "very negative" } <=> label = "negative"
           /\ pol_desc = "neutral" <=> label = "neutral"

\* C20: a text that is present but not a string (a number, null, a list)
\* is answered 400 by /api/summarize, /api/sentiment and /api/keywords, and
\* so is a batch whose texts list holds an item that is not a string.
C20_NonStringTextRejected ==
    /\ (pc = "responded" /\ agent_initialized /\ endpoint \in TextEndpoints
          /\ ~data.null /\ data.text.t \notin { "absent", "str" })
       => Rejected
    /\ (Served("batch_summarize") /\ BatchShapeOk(data)
          /\ \E i \in 1..Len(data.texts.items) : data.texts.items[i].t # "str")
       => Rejected

---------------------------------------------------------------------------
(* Genuine analyses and the uninitialized agent                            *)

\* the tokens of a text: its lowercased runs without whitespace, reduced to
\* letters, digits and underscores
TokensOf(s) == LET L == str_lower(s) IN { TokenOf(L, r) : r \in Runs(L) }

\* C21: whenever /api/summarize or /api/keywords answers success=true, a
\* sentiment_analysis in the answer has no error and one of the labels
\* positive, negative, neutral, and every entry of keywords is a token of
\* the text, never the message of a failed step.
C21_GenuineAnalysis ==
    (pc = "responded" /\ endpoint \in { "summarize", "keywords" } /\ response.success)
    => /\ response.has_sentiment
          => /\ ~response.sentiment_analysis.error
             /\ response.sentiment_analysis.sentiment \in Labels
       /\ response.has_keywords
          => \A i \in 1..Len(response.keywords) :
                response.keywords[i] \in TokensOf(data.text.s)

\* the agent is not initialized and a request was answered
Refused ==
    /\ response = NotInitialized
    /\ response.status = 500 /\ ~response.success
    /\ calls = <<>>

\* C22: when the agent failed to initialize, every request to
\* /api/summarize, /api/batch-summarize, /api/sentiment, /api/keywords,
\* /api/models and /api/stats is answered 500 with success=false whatever
\* its payload, no method of the agent is invoked, and agent_initialized
\* never changes.
C22_UninitializedRefuses ==
    /\ [](~agent_initialized
            => /\ pc \in { "idle", "responded" }
               /\ calls = <<>>
               /\ pc = "responded" => Refused)
    /\ [][agent_initialized' = agent_initialized]_vars

\* a payload without text was answered 500 by the uninitialized
\* application, not 400
C22_Witness ==
    /\ ~agent_initialized
    /\ pc = "responded"
    /\ endpoint = "summarize"
    /\ data = EmptyObject
    /\ response.status = 500
    /\ ~response.success
=============================================================================
